---------------------------- MODULE Spec2Model ----------------------------
(***************************************************************************)
(* PhotoProof admin dashboard: the session-carried signup wizard, the      *)
(* tenant store (studios, studio_domains, users, studio_features) and the  *)
(* admin actions on it.                                                    *)
(*                                                                         *)
(* Every client holds one Flask session (a dictionary of keys) and has at  *)
(* most one request in flight.  A handler that talks to the database is    *)
(* split at its database round trips (flush, query, commit), so requests   *)
(* of different clients interleave there, as they do between workers.      *)
(* The database is modelled with PostgreSQL's behaviour (the default       *)
(* DATABASE_URL): uncommitted rows are invisible to other transactions, a  *)
(* unique-index insert waits for an uncommitted conflicting row, and it    *)
(* fails against a committed one.                                          *)
(***************************************************************************)
EXTENDS Integers, Sequences, FiniteSets, TLC

(***************************************************************************)
(* Bounds of the model.                                                    *)
(***************************************************************************)
MaxIds == 2
MaxFeatureRows == 2
\* the longest studio name of the start forms that enumerate names
MaxNameLen == 3

\* the browsers, each with its own session
Clients == {1, 2}
\* the salts gensalt() may draw
Salts == {"salt"}

(***************************************************************************)
(* Program constants.                                                      *)
(***************************************************************************)
MinPasswordLen == 8

ADMIN_USERNAME == "admin"
ADMIN_PASSWORD == "admin123"

DefaultPlan == "starter"
DefaultBrandColor == "#0EA5E9"
DefaultTypography == "Modern (Inter)"

WizardKeys ==
    {"signup_studio_name", "signup_domain", "signup_email", "signup_owner_name",
     "signup_password", "signup_subdomain", "signup_plan"}

AdminKey == "admin_logged_in"

(***************************************************************************)
(* Form inputs.  Character strings whose content the code inspects are     *)
(* sequences of one-character strings; the others are opaque strings.      *)
(* NoValue is a form field that was not sent.                              *)
(***************************************************************************)
NoValue == "<none>"

\* The start forms.  "J's P" and "js-p" give the same subdomain, so forms 1
\* and 2 collide on the subdomain alone; forms 1 and 3 on the domain alone;
\* forms 1 and 4 on the email alone; forms 2, 3 and 4 collide nowhere.
Form1 ==
    [studio_name |-> <<"J", "'", "s", " ", "P">>, domain |-> "one.com",
     email |-> "a@x.io", owner_name |-> "Jane"]
Form2 ==
    [studio_name |-> <<"j", "s", "-", "p">>, domain |-> "two.com",
     email |-> "b@x.io", owner_name |-> "Joe"]
Form3 ==
    [studio_name |-> <<"Z">>, domain |-> "one.com",
     email |-> "c@x.io", owner_name |-> "Zed"]
Form4 ==
    [studio_name |-> <<"Y", " ", "y">>, domain |-> "four.com",
     email |-> "a@x.io", owner_name |-> "Yan"]
StartForms == {Form1, Form2, Form3, Form4}

\* studio names: the name of the scenario, and every name of up to
\* MaxNameLen characters: capitals, small letters, a digit, blanks,
\* apostrophes and hyphens
JanesPhotoCo ==
    <<"J", "a", "n", "e", "'", "s", " ", "P", "h", "o", "t", "o", " ", "C", "o">>
NameChars == {"J", "a", "3", " ", "'", "-"}
StudioNames ==
    {JanesPhotoCo} \cup UNION {[1..n -> NameChars] : n \in 0..MaxNameLen}

Pw7 == <<"s", "e", "c", "r", "e", "t", "1">>
Pw8 == <<"s", "e", "c", "r", "e", "t", "1", "2">>
Passwords == {Pw7, Pw8}

PlanInputs == {NoValue, "professional"}
ColorInputs == {NoValue}
TypographyInputs == {NoValue}
\* the login forms: the configured credentials, a wrong password, a wrong name
\* the file fields of the branding form: skip_logo and skip_photo ("on" or
\* not), and the file names of the parts `logo` and `studio_photo` (NoValue:
\* no such part; "": a part with no file chosen)
NoUpload ==
    [skip_logo |-> FALSE, logo |-> NoValue, skip_photo |-> FALSE, studio_photo |-> NoValue]
UploadInputs ==
    {NoUpload,
     [skip_logo |-> FALSE, logo |-> "logo.svg", skip_photo |-> FALSE, studio_photo |-> NoValue],
     [skip_logo |-> TRUE, logo |-> "logo.svg", skip_photo |-> FALSE, studio_photo |-> "studio"],
     [skip_logo |-> FALSE, logo |-> "", skip_photo |-> TRUE, studio_photo |-> "studio"],
     [skip_logo |-> FALSE, logo |-> "logo.svg", skip_photo |-> FALSE, studio_photo |-> "studio"]}

LoginForms ==
    { [username |-> "admin", password |-> "admin123"],
      [username |-> "admin", password |-> "guess"],
      [username |-> "root", password |-> "admin123"] }
FeatureKeys == {"analytics"}
\* an id that names no studio (ids are generated from 1 up to MaxIds)
UnknownId == MaxIds + 1
\* the ids in the URLs of the admin requests
TargetIds == 1..UnknownId

UpperSeq ==
    <<"A", "B", "C", "D", "E", "F", "G", "H", "I", "J", "K", "L", "M",
      "N", "O", "P", "Q", "R", "S", "T", "U", "V", "W", "X", "Y", "Z">>
LowerSeq ==
    <<"a", "b", "c", "d", "e", "f", "g", "h", "i", "j", "k", "l", "m",
      "n", "o", "p", "q", "r", "s", "t", "u", "v", "w", "x", "y", "z">>

\* str.lower() on one character
LowerChar(ch) ==
    IF \E i \in 1..Len(UpperSeq) : UpperSeq[i] = ch
    THEN LowerSeq[CHOOSE i \in 1..Len(UpperSeq) : UpperSeq[i] = ch]
    ELSE ch

\* str.lower()
Lower(s) == [i \in 1..Len(s) |-> LowerChar(s[i])]

\* str.replace(old, new) for a one-character old and a one-character new
ReplaceChar(s, old, new) == [i \in 1..Len(s) |-> IF s[i] = old THEN new ELSE s[i]]

\* str.replace(old, "") for a one-character old
RemoveChar(s, old) == SelectSeq(s, LAMBDA ch : ch # old)

\* a derivation that keeps the apostrophes
SubdomainWithApostrophes(studio_name) == ReplaceChar(Lower(studio_name), " ", "-")

\* studio_name.lower().replace(" ", "-").replace("'", "")
Subdomain(studio_name) == RemoveChar(ReplaceChar(Lower(studio_name), " ", "-"), "'")

\* the validation without the length check
ValidatePasswordNoLength(password, confirm_password) ==
    IF password # confirm_password THEN "Passwords do not match" ELSE "ok"

\* the validation of the start step: the flashed error, or "ok"
ValidatePassword(password, confirm_password) ==
    IF password # confirm_password THEN "Passwords do not match"
    ELSE IF Len(password) < MinPasswordLen THEN "Password must be at least 8 characters"
    ELSE "ok"

\* bcrypt.hashpw(password, gensalt()): a salted digest
hash_password(password, salt) == [salt |-> salt, digest |-> password]

(***************************************************************************)
(* Dictionaries (the Flask session): a function from the keys present.     *)
(***************************************************************************)
EmptyDict == [k \in {} |-> NoValue]
Has(d, k) == k \in DOMAIN d
Put(d, k, v) == [x \in (DOMAIN d) \cup {k} |-> IF x = k THEN v ELSE d[x]]
PopAll(d, ks) == [x \in (DOMAIN d) \ ks |-> d[x]]

\* request.form.get(name, default)
FormGet(value, default) == IF value = NoValue THEN default ELSE value

(***************************************************************************)
(* The text of an exception, as a sequence of words ("_", "." and blanks   *)
(* separate words); `x in text` is a contiguous sub-sequence.              *)
(***************************************************************************)
Contains(text, pat) ==
    \E i \in 0..(Len(text) - Len(pat)) : SubSeq(text, i + 1, i + Len(pat)) = pat

LowerWord(w) ==
    CASE w = "INSERT" -> "insert"
      [] w = "INTO" -> "into"
      [] w = "SQL" -> "sql"
      [] OTHER -> w

LowerWords(text) == [i \in 1..Len(text) |-> LowerWord(text[i])]

\* the columns of the tables, in the order of the model classes
StudioColumns ==
    <<"id", "name", "email", "phone", "address", "subdomain", "logo", "url",
      "brand", "color", "typography", "default", "layout", "id", "default",
      "template", "id", "studio", "photo", "studio", "description", "custom",
      "css", "subscription", "tier", "subscription", "status", "max",
      "projects", "max", "storage", "gb", "storage", "used", "bytes",
      "onboarding", "completed", "onboarding", "step", "is", "active",
      "created", "at", "updated", "at">>

StudioDomainColumns ==
    <<"id", "studio", "id", "domain", "subdomain", "is", "primary", "is",
      "verified", "verification", "token", "verification", "method",
      "verified", "at", "created", "at", "updated", "at">>

UserColumns ==
    <<"id", "studio", "id", "name", "email", "username", "password", "hash",
      "role", "avatar", "url", "phone", "is", "active", "email", "verified",
      "last", "login", "at", "created", "at", "updated", "at">>

TableName(table) ==
    CASE table = "studios" -> <<"studios">>
      [] table = "studio_domains" -> <<"studio", "domains">>
      [] table = "users" -> <<"users">>

TableColumns(table) ==
    CASE table = "studios" -> StudioColumns
      [] table = "studio_domains" -> StudioDomainColumns
      [] table = "users" -> UserColumns

\* The two names a unique index on table.column carries: the name of an
\* index made with index=True ("ix_<table>_<column>") and the name of the
\* constraint made by unique=True ("<table>_<column>_key").
IndexNamings == {"ix", "key"}

ConstraintName(table, column, naming) ==
    IF naming = "ix"
    THEN <<"ix">> \o TableName(table) \o <<column>>
    ELSE TableName(table) \o <<column, "key">>

\* str(e) of the IntegrityError of a failed INSERT: the driver's message
\* with the violated constraint, then the statement with its columns.
IntegrityErrorText(table, column, naming) ==
    <<"duplicate", "key", "value", "violates", "unique", "constraint">>
        \o ConstraintName(table, column, naming)
        \o <<"SQL", "INSERT", "INTO">> \o TableName(table) \o TableColumns(table)

\* str(e) of the KeyError of session[key]
KeyErrorText(key) ==
    CASE key = "signup_studio_name" -> <<"signup", "studio", "name">>
      [] key = "signup_subdomain" -> <<"signup", "subdomain">>
      [] key = "signup_domain" -> <<"signup", "domain">>
      [] key = "signup_email" -> <<"signup", "email">>
      [] key = "signup_owner_name" -> <<"signup", "owner", "name">>
      [] key = "signup_password" -> <<"signup", "password">>
      [] key = "signup_plan" -> <<"signup", "plan">>

\* an except branch that knows the subdomain conflict by the index name only
ErrorMessageByIndexName(error_msg) ==
    IF Contains(error_msg, <<"ix", "studios", "subdomain">>)
    THEN "subdomain is already taken"
    ELSE IF Contains(error_msg, <<"ix", "studios", "email">>)
              \/ Contains(LowerWords(error_msg), <<"studios", "email">>)
    THEN "email is already registered"
    ELSE "other"

\* the except branch of signup_branding: the message shown for str(e)
ErrorMessage(error_msg) ==
    IF Contains(error_msg, <<"ix", "studios", "subdomain">>)
         \/ Contains(LowerWords(error_msg), <<"subdomain">>)
    THEN "subdomain is already taken"
    ELSE IF Contains(error_msg, <<"ix", "studios", "email">>)
              \/ Contains(LowerWords(error_msg), <<"studios", "email">>)
    THEN "email is already registered"
    ELSE "other"

(***************************************************************************)
(* Rows.                                                                   *)
(***************************************************************************)
\* Studio(...) as create_studio builds it, with the column defaults
NewStudio(studio_id, name, owner_email, subdomain, plan) ==
    [id |-> studio_id, name |-> name, email |-> owner_email,
     subdomain |-> subdomain, subscription_tier |-> plan,
     onboarding_step |-> "pending", onboarding_completed |-> FALSE,
     is_active |-> TRUE, brand_color |-> "#1e293b",
     typography |-> "System Default (Inter & Cormorant)",
     logo_url |-> <<>>, studio_photo |-> <<>>]

\* a first domain that is stored as not primary
NewStudioDomainSecondary(studio_id, domain) ==
    [studio_id |-> studio_id, domain |-> domain,
     is_primary |-> FALSE, is_verified |-> FALSE]

\* StudioDomain(...) as create_studio builds it
NewStudioDomain(studio_id, domain) ==
    [studio_id |-> studio_id, domain |-> domain,
     is_primary |-> TRUE, is_verified |-> FALSE]

\* User(...) as create_studio builds it
NewUser(studio_id, owner_name, owner_email, password_hash) ==
    [studio_id |-> studio_id, name |-> owner_name, email |-> owner_email,
     username |-> owner_email, password_hash |-> password_hash,
     role |-> "studio_owner"]

\* StudioFeature(...) as toggle_feature builds it
NewStudioFeature(studio_id, feature_key, enabled) ==
    [studio_id |-> studio_id, feature_key |-> feature_key, enabled |-> enabled]

\* a studios table whose only unique column is email
StudioViolationsEmailOnly(row, rows) ==
    {col \in {"email"} : \E r \in rows : r[col] = row[col]}

\* the unique columns of studios that `row` shares with a row of `rows`
StudioViolations(row, rows) ==
    {col \in {"email", "subdomain"} : \E r \in rows : r[col] = row[col]}

\* the unique column of studio_domains that `row` shares with a row of `rows`
DomainViolations(row, rows) ==
    {col \in {"domain"} : \E r \in rows : r[col] = row[col]}

\* the unique columns of users that `row` shares with a row of `rows`
UserViolations(row, rows) ==
    {col \in {"email", "username"} : \E r \in rows : r[col] = row[col]}

NoRows == [studios |-> {}, domains |-> {}, users |-> {}]

VARIABLES
    session,    \* session[c]: the Flask session of client c
    req,        \* req[c]: the request of c in flight; pc = "idle" when none
    resp,       \* the response the last step sent, with the client it went to;
                \* NoResponse when the step ended no request
    studios,    \* committed rows of studios
    domains,    \* committed rows of studio_domains
    users,      \* committed rows of users
    features,   \* committed rows of studio_features, in insertion order
    pending,    \* pending[c]: rows the open transaction of c has flushed
    nextId,     \* the next studio id uuid4() yields: ids are never reused
    wizard,     \* wizard[c]: the wizard steps c has passed since its last completion
    files       \* the files in the upload directory uploads/studios

vars == <<session, req, resp, studios, domains, users, features, pending, nextId, wizard,
          files>>

Idle == [pc |-> "idle"]
NoResponse == [status |-> "none"]
\* the response `r` is sent to client c, for its request to `endpoint`
Respond(c, endpoint, r) == [client |-> c, request |-> endpoint] @@ r
Render(page, flash) == [status |-> "render", page |-> page, flash |-> flash]
Redirect(page, flash) == [status |-> "redirect", page |-> page, flash |-> flash]
\* the page of a failed tenant creation; `cause` is what was raised
RenderError(page, flash, cause, studio_id) ==
    [status |-> "render", page |-> page, flash |-> flash, cause |-> cause,
     studio_id |-> studio_id]
\* the redirect of a completed signup to /signup/complete/<studio_id>
RedirectComplete(studio_id) ==
    [status |-> "redirect", page |-> "signup_complete", flash |-> "",
     studio_id |-> studio_id]

Init ==
    /\ session = [c \in Clients |-> EmptyDict]
    /\ req = [c \in Clients |-> Idle]
    /\ resp = NoResponse
    /\ studios = {}
    /\ domains = {}
    /\ users = {}
    /\ features = <<>>
    /\ pending = [c \in Clients |-> NoRows]
    /\ nextId = 1
    /\ files = {}
    /\ wizard = [c \in Clients |-> {}]

\* rows other open transactions have flushed and not yet committed
OthersPending(c, table) == UNION {pending[d][table] : d \in Clients \ {c}}

db_unchanged == UNCHANGED <<studios, domains, users, features, pending, nextId, files>>

\* the response `r` to a start form with this password and confirmation
Submitted(password, confirm_password, r) ==
    [password |-> password, confirm_password |-> confirm_password] @@ r

(***************************************************************************)
(* POST /signup                                                            *)
(***************************************************************************)
SignupPost(c, studio_name, domain, email, owner_name, password, confirm_password) ==
    /\ req[c].pc = "idle"
    /\ LET error == ValidatePassword(password, confirm_password) IN
       IF error # "ok"
       THEN /\ resp' = Respond(c, "signup",
                        Submitted(password, confirm_password,
                                  Render("signup/start", error)))
            /\ UNCHANGED <<session, wizard>>
       ELSE /\ session' = [session EXCEPT ![c] =
                    Put(Put(Put(Put(Put(Put(@,
                        "signup_studio_name", studio_name),
                        "signup_domain", domain),
                        "signup_email", email),
                        "signup_owner_name", owner_name),
                        "signup_password", password),
                        "signup_subdomain", Subdomain(studio_name))]
            /\ resp' = Respond(c, "signup",
                        Submitted(password, confirm_password,
                                  Redirect("signup_plan", "")))
            /\ wizard' = [wizard EXCEPT ![c] = @ \cup {"start"}]
    /\ UNCHANGED req
    /\ db_unchanged

(***************************************************************************)
(* POST /signup/plan                                                       *)
(***************************************************************************)
\* a plan step without its guard
PlanGuardAbsent(c) == TRUE

PlanGuard(c) == Has(session[c], "signup_studio_name")

SignupPlanPost(c, plan) ==
    /\ req[c].pc = "idle"
    /\ IF ~PlanGuard(c)
       THEN /\ resp' = Respond(c, "signup_plan", Redirect("signup", ""))
            /\ UNCHANGED <<session, wizard>>
       ELSE /\ session' = [session EXCEPT ![c] =
                    Put(@, "signup_plan", FormGet(plan, DefaultPlan))]
            /\ resp' = Respond(c, "signup_plan", Redirect("signup_branding", ""))
            /\ wizard' = [wizard EXCEPT ![c] = @ \cup {"plan"}]
    /\ UNCHANGED req
    /\ db_unchanged

(***************************************************************************)
(* POST /signup/branding                                                   *)
(***************************************************************************)
BrandingGuard(c) == Has(session[c], "signup_plan")

\* the session keys signup_branding reads, in the order it reads them
BrandingReads ==
    <<"signup_studio_name", "signup_subdomain", "signup_domain", "signup_email",
      "signup_owner_name", "signup_password", "signup_plan">>

MissingReads(c) == {i \in 1..Len(BrandingReads) : ~Has(session[c], BrandingReads[i])}

FirstMissing(c) ==
    BrandingReads[CHOOSE i \in MissingReads(c) : \A j \in MissingReads(c) : i <= j]

\* a failure that leaves what the transaction has flushed in the tables
AbandonFlushed(c) ==
    /\ studios' = studios \cup pending[c].studios
    /\ domains' = domains \cup pending[c].domains
    /\ users' = users \cup pending[c].users
    /\ pending' = [pending EXCEPT ![c] = NoRows]

\* The transaction of c is abandoned: nothing it flushed is committed (the
\* except branch neither commits nor reuses the database session).
Abandon(c) ==
    /\ pending' = [pending EXCEPT ![c] = NoRows]
    /\ UNCHANGED <<studios, domains, users>>

\* except Exception as e: the wizard keys stay, the branding page is shown
BrandingFails(c, error_msg, cause) ==
    /\ Abandon(c)
    /\ req' = [req EXCEPT ![c] = Idle]
    /\ resp' = Respond(c, "signup_branding",
            RenderError("signup/branding", ErrorMessage(error_msg), cause,
                        req[c].studio_id))
    /\ UNCHANGED <<session, wizard, features, nextId, files>>

\* a URL column that is NULL, a URL variable that is None
NoUrl == <<>>

\* os.path.splitext(filename)[1]
SplitExt(filename) ==
    CASE filename = "logo.svg" -> ".svg"
      [] OTHER -> ""

\* the file a part of the form is saved as: none when the part is skipped,
\* absent or without a file name, else <studio_id>_<kind><ext>
SavedFile(studio_id, kind, skip, filename, default_ext) ==
    IF skip \/ filename = NoValue \/ filename = ""
    THEN {}
    ELSE {[studio_id |-> studio_id, kind |-> kind,
           ext |-> IF SplitExt(filename) = "" THEN default_ext ELSE SplitExt(filename)]}

\* logo_url, photo_url: /uploads/studios/<file name> of the saved file, or
\* None (NoUrl)
UrlOf(saved) ==
    IF saved = {}
    THEN NoUrl
    ELSE LET f == CHOOSE g \in saved : TRUE
         IN <<"/uploads/studios/", f.studio_id, "_", f.kind, f.ext>>

\* The guard, the form, uuid4() and the uploads: the studio id is generated
\* and the files are saved before the tenant is created.
SignupBrandingPost(c, brand_color, typography, upload) ==
    /\ req[c].pc = "idle"
    /\ IF ~BrandingGuard(c)
       THEN /\ resp' = Respond(c, "signup_branding", Redirect("signup_plan", ""))
            /\ UNCHANGED <<session, req, wizard>>
            /\ db_unchanged
       ELSE LET logo == SavedFile(nextId, "logo", upload.skip_logo, upload.logo, ".png")
                photo == SavedFile(nextId, "photo", upload.skip_photo,
                                   upload.studio_photo, ".jpg")
            IN
            /\ nextId <= MaxIds
            /\ nextId' = nextId + 1
            /\ files' = files \cup logo \cup photo
            /\ req' = [req EXCEPT ![c] =
                    [pc |-> "signup_branding", studio_id |-> nextId,
                     brand_color |-> FormGet(brand_color, DefaultBrandColor),
                     typography |-> FormGet(typography, DefaultTypography),
                     logo_url |-> UrlOf(logo), photo_url |-> UrlOf(photo)]]
            /\ resp' = NoResponse
            /\ UNCHANGED <<session, wizard, studios, domains, users, features, pending>>

\* The reads of the session, hash_password, and create_studio up to its
\* first flush (INSERT INTO studios).
CreateStudio(c, salt) ==
    /\ req[c].pc = "signup_branding"
    /\ IF MissingReads(c) # {}
       THEN BrandingFails(c, KeyErrorText(FirstMissing(c)),
                          <<"KeyError", FirstMissing(c)>>)
       ELSE LET sn == session[c]
                studio == NewStudio(req[c].studio_id, sn["signup_studio_name"],
                              sn["signup_email"], sn["signup_subdomain"],
                              sn["signup_plan"])
            IN  IF StudioViolations(studio, studios) # {}
                THEN \E col \in StudioViolations(studio, studios) :
                     \E naming \in IndexNamings :
                        BrandingFails(c, IntegrityErrorText("studios", col, naming),
                                      <<"studios", col>>)
                ELSE /\ StudioViolations(studio, OthersPending(c, "studios")) = {}
                     /\ pending' = [pending EXCEPT ![c].studios = {studio}]
                     /\ req' = [req EXCEPT ![c] =
                            [pc |-> "create_studio",
                             domain |-> sn["signup_domain"],
                             owner_email |-> sn["signup_email"],
                             owner_name |-> sn["signup_owner_name"],
                             password_hash |->
                                hash_password(sn["signup_password"], salt)] @@ @]
                     /\ resp' = NoResponse
                     /\ UNCHANGED <<session, wizard, studios, domains, users,
                                    features, nextId, files>>

\* create_studio from its first flush to its second (INSERT INTO
\* studio_domains, INSERT INTO users)
CreateStudioFlush(c) ==
    /\ req[c].pc = "create_studio"
    /\ LET r == req[c]
           studio_domain == NewStudioDomain(r.studio_id, r.domain)
           user == NewUser(r.studio_id, r.owner_name, r.owner_email, r.password_hash)
       IN  IF DomainViolations(studio_domain, domains) # {}
           THEN \E col \in DomainViolations(studio_domain, domains) :
                \E naming \in IndexNamings :
                    BrandingFails(c, IntegrityErrorText("studio_domains", col, naming),
                                  <<"studio_domains", col>>)
           ELSE IF UserViolations(user, users) # {}
           THEN \E col \in UserViolations(user, users) :
                \E naming \in IndexNamings :
                    BrandingFails(c, IntegrityErrorText("users", col, naming),
                                  <<"users", col>>)
           ELSE /\ DomainViolations(studio_domain, OthersPending(c, "domains")) = {}
                /\ UserViolations(user, OthersPending(c, "users")) = {}
                /\ pending' = [pending EXCEPT ![c].domains = {studio_domain},
                                              ![c].users = {user}]
                /\ req' = [req EXCEPT ![c].pc = "branding"]
                /\ resp' = NoResponse
                /\ UNCHANGED <<session, wizard, studios, domains, users, features,
                               nextId, files>>

\* studio.brand_color = ..., studio.typography = ...
WithBranding(studio, brand_color, typography) ==
    [studio EXCEPT !.brand_color = brand_color, !.typography = typography]

\* if logo_url: studio.logo_url = logo_url; if photo_url: studio.studio_photo
\* = photo_url
WithUploads(studio, logo_url, photo_url) ==
    [studio EXCEPT !.logo_url = IF logo_url # NoUrl THEN logo_url ELSE @,
                   !.studio_photo = IF photo_url # NoUrl THEN photo_url ELSE @]

\* a completion that leaves the password in the session
ClearedKeysButPassword == WizardKeys \ {"signup_password"}

\* a completion that leaves the plan in the session
ClearedKeysButPlan == WizardKeys \ {"signup_plan"}

\* the wizard keys signup_branding pops after the commit
ClearedKeys == WizardKeys

\* the branding fields, db.commit(), and the session keys popped
BrandingCommit(c) ==
    /\ req[c].pc = "branding"
    /\ studios' = studios \cup
            {WithUploads(WithBranding(s, req[c].brand_color, req[c].typography),
                         req[c].logo_url, req[c].photo_url) :
                s \in pending[c].studios}
    /\ domains' = domains \cup pending[c].domains
    /\ users' = users \cup pending[c].users
    /\ pending' = [pending EXCEPT ![c] = NoRows]
    /\ session' = [session EXCEPT ![c] = PopAll(@, ClearedKeys)]
    /\ req' = [req EXCEPT ![c] = Idle]
    /\ resp' = Respond(c, "signup_branding", RedirectComplete(req[c].studio_id))
    /\ wizard' = [wizard EXCEPT ![c] = {}]
    /\ UNCHANGED <<features, nextId, files>>

(***************************************************************************)
(* The admin session flag.                                                 *)
(***************************************************************************)
\* admin routes without the decorator
AdminRequiredAbsent(c) == TRUE

\* admin_required: session.get("admin_logged_in")
AdminRequired(c) == Has(session[c], AdminKey) /\ session[c][AdminKey] = TRUE

LoginRedirect == Redirect("admin_login", "Please login to access this page")

CheckCredentials(username, password) ==
    username = ADMIN_USERNAME /\ password = ADMIN_PASSWORD

\* the response `r` to a login form with these credentials
Answering(username, password, r) ==
    [username |-> username, password |-> password] @@ r

\* POST /admin/login
AdminLoginPost(c, username, password) ==
    /\ req[c].pc = "idle"
    /\ IF CheckCredentials(username, password)
       THEN /\ session' = [session EXCEPT ![c] = Put(@, AdminKey, TRUE)]
            /\ resp' = Respond(c, "admin_login", Answering(username, password,
                            Redirect("admin_dashboard", "Login successful")))
       ELSE /\ resp' = Respond(c, "admin_login", Answering(username, password,
                            Render("admin/login", "Invalid credentials")))
            /\ UNCHANGED session
    /\ UNCHANGED <<req, wizard>>
    /\ db_unchanged

\* GET /admin/logout
AdminLogout(c) ==
    /\ req[c].pc = "idle"
    /\ session' = [session EXCEPT ![c] = PopAll(@, {AdminKey})]
    /\ resp' = Respond(c, "admin_logout",
            Redirect("admin_login", "Logged out successfully"))
    /\ UNCHANGED <<req, wizard>>
    /\ db_unchanged

\* an admin request of a session without the flag: redirected, nothing else
Refused(c, endpoint) ==
    /\ resp' = Respond(c, endpoint, LoginRedirect)
    /\ UNCHANGED <<session, req, wizard>>
    /\ db_unchanged

(***************************************************************************)
(* Queries and updates.  The ORM session loads a row, the handler assigns  *)
(* attributes, and the commit writes the attributes whose assigned value   *)
(* differs from the loaded one.                                            *)
(***************************************************************************)
\* The ids the admin requests name: the studios there are, and one id that
\* names none (every id that names none is handled alike).
Targeted(studio_id) == studio_id = UnknownId \/ \E s \in studios : s.id = studio_id

\* a query that falls back to every studio when the id matches none
StudiosByIdOrAll(studio_id) ==
    IF \E s \in studios : s.id = studio_id
    THEN {s \in studios : s.id = studio_id}
    ELSE studios

\* db.query(Studio).filter(Studio.id == studio_id): the rows found
StudiosById(studio_id) == {s \in studios : s.id = studio_id}

\* studio.domains
DomainsOf(studio_id) == {d \in domains : d.studio_id = studio_id}

\* the assigned attributes that differ from the loaded ones
Changed(loaded, assigned) ==
    [col \in {x \in DOMAIN assigned : assigned[x] # loaded[x]} |-> assigned[col]]

\* UPDATE ... SET changes
Updated(row, changes) ==
    [col \in DOMAIN row |-> IF col \in DOMAIN changes THEN changes[col] ELSE row[col]]

\* an UPDATE studios SET changes without its WHERE clause
StudiosUpdatedEverywhere(rows, studio_id, changes) ==
    {Updated(s, changes) : s \in rows}

\* the table `rows` after UPDATE studios SET changes WHERE id = studio_id
StudiosUpdated(rows, studio_id, changes) ==
    {IF s.id = studio_id THEN Updated(s, changes) ELSE s : s \in rows}

\* the table `rows` after UPDATE studio_domains SET changes, on the row
\* with this domain
DomainsUpdated(rows, domain, changes) ==
    {IF d.domain = domain THEN Updated(d, changes) ELSE d : d \in rows}

UpdateStudio(studio_id, changes) ==
    studios' = StudiosUpdated(studios, studio_id, changes)

UpdateDomain(domain, changes) ==
    domains' = DomainsUpdated(domains, domain, changes)

\* the response `r` to a request whose URL names `studio_id`
About(studio_id, r) == [studio_id |-> studio_id] @@ r

(***************************************************************************)
(* POST /admin/studios/<studio_id>/toggle                                  *)
(***************************************************************************)
ToggleStudioLoad(c, studio_id) ==
    /\ req[c].pc = "idle"
    /\ Targeted(studio_id)
    /\ IF ~AdminRequired(c) THEN Refused(c, "toggle_studio")
       ELSE IF StudiosById(studio_id) = {}
       THEN /\ resp' = Respond(c, "toggle_studio", About(studio_id, Redirect("admin_studios", "")))
            /\ UNCHANGED <<session, req, wizard>>
            /\ db_unchanged
       ELSE \E s \in StudiosById(studio_id) :
            /\ req' = [req EXCEPT ![c] =
                    [pc |-> "toggle_studio", studio_id |-> studio_id,
                     loaded |-> [is_active |-> s.is_active]]]
            /\ resp' = NoResponse
            /\ UNCHANGED <<session, wizard>>
            /\ db_unchanged

\* studio.is_active = not studio.is_active
ToggledActive(loaded) == [is_active |-> ~loaded.is_active]

ToggleStudioCommit(c) ==
    /\ req[c].pc = "toggle_studio"
    /\ LET assigned == ToggledActive(req[c].loaded) IN
       /\ UpdateStudio(req[c].studio_id, Changed(req[c].loaded, assigned))
       /\ resp' = Respond(c, "toggle_studio", About(req[c].studio_id,
                Redirect("admin_studios",
                    IF assigned.is_active THEN "Studio enabled" ELSE "Studio disabled")))
    /\ req' = [req EXCEPT ![c] = Idle]
    /\ UNCHANGED <<session, wizard, domains, users, features, pending, nextId, files>>

(***************************************************************************)
(* POST /admin/provisioning/<studio_id>/provision                          *)
(***************************************************************************)
\* a provision that sets the step only
ProvisionedStepOnly == [onboarding_step |-> "completed"]
Provisioned == [onboarding_step |-> "completed", onboarding_completed |-> TRUE]
\* a deprovision that resets the flag only
DeprovisionedFlagOnly == [onboarding_completed |-> FALSE]
\* a deprovision that resets the step only
DeprovisionedStepOnly == [onboarding_step |-> "pending"]
Deprovisioned == [onboarding_step |-> "pending", onboarding_completed |-> FALSE]

OnboardingOf(s) ==
    [onboarding_step |-> s.onboarding_step,
     onboarding_completed |-> s.onboarding_completed]

\* provision_studio: the query
ProvisionLoad(c, studio_id) ==
    /\ req[c].pc = "idle"
    /\ Targeted(studio_id)
    /\ IF ~AdminRequired(c) THEN Refused(c, "provision")
       ELSE IF StudiosById(studio_id) = {}
       THEN /\ resp' = Respond(c, "provision", About(studio_id,
                    Redirect("admin_provisioning", "Studio provisioned successfully!")))
            /\ UNCHANGED <<session, req, wizard>>
            /\ db_unchanged
       ELSE \E s \in StudiosById(studio_id) :
            /\ req' = [req EXCEPT ![c] =
                    [pc |-> "provision_studio", studio_id |-> studio_id,
                     loaded |-> OnboardingOf(s)]]
            /\ resp' = NoResponse
            /\ UNCHANGED <<session, wizard>>
            /\ db_unchanged

\* provision_studio: the assignments and db.commit(); then provision reads
\* studio.domains, which the commit expired
ProvisionStudioCommit(c) ==
    /\ req[c].pc = "provision_studio"
    /\ UpdateStudio(req[c].studio_id, Changed(req[c].loaded, Provisioned))
    /\ IF DomainsOf(req[c].studio_id) = {}
       THEN /\ req' = [req EXCEPT ![c] = Idle]
            /\ resp' = Respond(c, "provision", About(req[c].studio_id,
                    Redirect("admin_provisioning", "Studio provisioned successfully!")))
       ELSE \E d \in DomainsOf(req[c].studio_id) :
            /\ req' = [req EXCEPT ![c] =
                    [pc |-> "provision", studio_id |-> req[c].studio_id,
                     domain |-> d.domain,
                     loaded |-> [is_verified |-> d.is_verified]]]
            /\ resp' = NoResponse
    /\ UNCHANGED <<session, wizard, domains, users, features, pending, nextId, files>>

\* provision: studio.domains[0].is_verified = True and db.commit()
ProvisionCommit(c) ==
    /\ req[c].pc = "provision"
    /\ UpdateDomain(req[c].domain, Changed(req[c].loaded, [is_verified |-> TRUE]))
    /\ req' = [req EXCEPT ![c] = Idle]
    /\ resp' = Respond(c, "provision", About(req[c].studio_id,
            Redirect("admin_provisioning", "Studio provisioned successfully!")))
    /\ UNCHANGED <<session, wizard, studios, users, features, pending, nextId, files>>

\* get_pending_studios: the studios pending provisioning
get_pending_studios(rows) ==
    {s \in rows : s.onboarding_completed = FALSE /\ s.onboarding_step = "pending"}

(***************************************************************************)
(* POST /admin/provisioning/<studio_id>/deprovision                        *)
(***************************************************************************)
\* get_studio_by_id, with the domains joined
DeprovisionLoad(c, studio_id) ==
    /\ req[c].pc = "idle"
    /\ Targeted(studio_id)
    /\ IF ~AdminRequired(c) THEN Refused(c, "deprovision")
       ELSE IF StudiosById(studio_id) = {}
       THEN /\ resp' = Respond(c, "deprovision", About(studio_id,
                    Redirect("admin_provisioning", "Studio deprovisioned")))
            /\ UNCHANGED <<session, req, wizard>>
            /\ db_unchanged
       ELSE \E s \in StudiosById(studio_id) :
            \E ds \in IF DomainsOf(studio_id) = {} THEN {{}}
                      ELSE {{d} : d \in DomainsOf(studio_id)} :
            /\ req' = [req EXCEPT ![c] =
                    [pc |-> "deprovision", studio_id |-> studio_id,
                     loaded |-> OnboardingOf(s),
                     first_domain |-> {[domain |-> d.domain,
                                        loaded |-> [is_verified |-> d.is_verified]] :
                                            d \in ds}]]
            /\ resp' = NoResponse
            /\ UNCHANGED <<session, wizard>>
            /\ db_unchanged

\* the assignments of deprovision and db.commit()
DeprovisionCommit(c) ==
    /\ req[c].pc = "deprovision"
    /\ UpdateStudio(req[c].studio_id, Changed(req[c].loaded, Deprovisioned))
    /\ IF req[c].first_domain = {}
       THEN UNCHANGED domains
       ELSE \E fd \in req[c].first_domain :
                UpdateDomain(fd.domain, Changed(fd.loaded, [is_verified |-> FALSE]))
    /\ req' = [req EXCEPT ![c] = Idle]
    /\ resp' = Respond(c, "deprovision", About(req[c].studio_id,
            Redirect("admin_provisioning", "Studio deprovisioned")))
    /\ UNCHANGED <<session, wizard, users, features, pending, nextId, files>>

(***************************************************************************)
(* POST /admin/features/<studio_id>/toggle                                 *)
(***************************************************************************)
\* the rows of `rows` the query of toggle_feature matches (positions)
FeatureMatches(rows, studio_id, feature_key) ==
    {i \in 1..Len(rows) :
        rows[i].studio_id = studio_id /\ rows[i].feature_key = feature_key}

\* .first(): no row, or any one of the rows that match (the query has no
\* ORDER BY)
First(matches) == IF matches = {} THEN {{}} ELSE {{i} : i \in matches}

\* the attributes of the row found, as loaded
LoadedFeature(rows, found) == {[enabled |-> rows[i].enabled] : i \in found}

\* toggle_feature after its query: feature.enabled = enabled on the row
\* found, else a new row; the table as the commit leaves it
FeatureWritten(rows, found, loaded, studio_id, feature_key, enabled) ==
    IF found # {}
    THEN [i \in 1..Len(rows) |->
            IF i \in found
            THEN Updated(rows[i],
                    Changed(CHOOSE l \in loaded : TRUE, [enabled |-> enabled]))
            ELSE rows[i]]
    ELSE Append(rows, NewStudioFeature(studio_id, feature_key, enabled))

\* requests in flight that found no row and will insert one
Inserting == {d \in Clients : req[d].pc = "toggle_feature" /\ req[d].found = {}}

\* toggle_feature: the query
ToggleFeatureLookup(c, studio_id, feature_key, enabled) ==
    /\ req[c].pc = "idle"
    /\ Targeted(studio_id)
    /\ IF ~AdminRequired(c) THEN Refused(c, "toggle_studio_feature")
       ELSE /\ \E found \in First(FeatureMatches(features, studio_id, feature_key)) :
                /\ found = {} => Len(features) + Cardinality(Inserting) < MaxFeatureRows
                /\ req' = [req EXCEPT ![c] =
                        [pc |-> "toggle_feature", studio_id |-> studio_id,
                         feature_key |-> feature_key, enabled |-> enabled,
                         found |-> found,
                         loaded |-> LoadedFeature(features, found)]]
            /\ resp' = NoResponse
            /\ UNCHANGED <<session, wizard>>
            /\ db_unchanged

\* the foreign key studio_features.studio_id -> studios.id
ForeignKeyHolds(studio_id) == StudiosById(studio_id) # {}

\* PostgreSQL enforces foreign keys; the SQLite the engine falls back to
\* does not (its foreign_keys pragma is off unless the application sets it).
ForeignKeysEnforced == BOOLEAN

\* toggle_feature: the assignment or the insert, and db.commit()
ToggleFeatureCommit(c) ==
    /\ req[c].pc = "toggle_feature"
    /\ LET r == req[c]
           flash == IF r.enabled THEN "Feature enabled" ELSE "Feature disabled"
       IN  \E enforced \in ForeignKeysEnforced :
           IF r.found = {} /\ ~ForeignKeyHolds(r.studio_id) /\ enforced
           THEN /\ UNCHANGED features
                /\ resp' = Respond(c, "toggle_studio_feature", About(r.studio_id,
                        [status |-> "error", page |-> "500", flash |-> ""]))
           ELSE /\ features' = FeatureWritten(features, r.found, r.loaded,
                                    r.studio_id, r.feature_key, r.enabled)
                /\ resp' = Respond(c, "toggle_studio_feature", About(r.studio_id,
                        Redirect("admin_features", flash)))
    /\ req' = [req EXCEPT ![c] = Idle]
    /\ UNCHANGED <<session, wizard, studios, domains, users, pending, nextId, files>>

(***************************************************************************)
(* GET /api/check-domain                                                   *)
(***************************************************************************)
\* the `domain` query parameter: absent, empty, the domain of a start form,
\* the same in another case, and a domain no form has
DomainInputs == {NoValue, "", "two.com", "Two.com", "nine.com"}

\* a check that takes only the absent parameter for missing
check_domain_none_only(domain, rows) ==
    IF domain = NoValue
    THEN [available |-> FALSE, error |-> "Domain required"]
    ELSE [available |-> \A d \in rows : d.domain # domain, domain |-> domain]

\* the JSON check_domain returns, `rows` being the studio_domains table
check_domain(domain, rows) ==
    IF domain = NoValue \/ domain = ""
    THEN [available |-> FALSE, error |-> "Domain required"]
    ELSE [available |-> \A d \in rows : d.domain # domain, domain |-> domain]

CheckDomain(c, domain) ==
    /\ req[c].pc = "idle"
    /\ resp' = Respond(c, "check_domain",
            [status |-> "json", args |-> domain, json |-> check_domain(domain, domains)])
    /\ UNCHANGED <<session, req, wizard>>
    /\ db_unchanged

(***************************************************************************)
(* The system.                                                             *)
(***************************************************************************)
\* the requests of the signup wizard
SignupRequests(c, forms, passwords, plans, uploads) ==
    \/ \E form \in forms, password \in passwords, confirm_password \in passwords :
            SignupPost(c, form.studio_name, form.domain, form.email,
                       form.owner_name, password, confirm_password)
    \/ \E plan \in plans : SignupPlanPost(c, plan)
    \/ \E brand_color \in ColorInputs, typography \in TypographyInputs,
          upload \in uploads :
            SignupBrandingPost(c, brand_color, typography, upload)
    \/ \E salt \in Salts : CreateStudio(c, salt)
    \/ CreateStudioFlush(c)
    \/ BrandingCommit(c)

\* the login and logout of the admin console
LoginRequests(c) ==
    \/ \E form \in LoginForms : AdminLoginPost(c, form.username, form.password)
    \/ AdminLogout(c)

\* the mutations of the admin console
AdminRequests(c) ==
    \/ \E studio_id \in TargetIds :
            \/ ToggleStudioLoad(c, studio_id)
            \/ ProvisionLoad(c, studio_id)
            \/ DeprovisionLoad(c, studio_id)
            \/ \E feature_key \in FeatureKeys, enabled \in BOOLEAN :
                    ToggleFeatureLookup(c, studio_id, feature_key, enabled)
    \/ ToggleStudioCommit(c)
    \/ ProvisionStudioCommit(c)
    \/ ProvisionCommit(c)
    \/ DeprovisionCommit(c)
    \/ ToggleFeatureCommit(c)

\* the public API
ApiRequests(c) == \E domain \in DomainInputs : CheckDomain(c, domain)

\* every request of every client
Next ==
    \E c \in Clients :
        \/ SignupRequests(c, StartForms, Passwords, PlanInputs, UploadInputs)
        \/ ApiRequests(c)
        \/ LoginRequests(c)
        \/ AdminRequests(c)

Spec == Init /\ [][Next]_vars

\* Signup traffic: every client runs the wizard, with every start form.
NextSignup == \E c \in Clients : SignupRequests(c, StartForms, Passwords, {NoValue}, {NoUpload})

SpecSignup == Init /\ [][NextSignup]_vars

\* Admin traffic: client 1 signs a tenant up, with a valid form, and every
\* client uses the admin console.
NextAdmin ==
    \/ \E c \in {1} : SignupRequests(c, {Form2}, {Pw8}, {"professional"}, {NoUpload})
    \/ \E c \in Clients : LoginRequests(c) \/ AdminRequests(c)

SpecAdmin == Init /\ [][NextAdmin]_vars

\* API traffic: client 1 signs tenants up while every client asks for
\* domains.
NextApi ==
    \/ \E c \in {1} : SignupRequests(c, {Form2, Form3}, {Pw8}, {NoValue}, {NoUpload})
    \/ \E c \in Clients : ApiRequests(c)

SpecApi == Init /\ [][NextApi]_vars

\* Start traffic: a client submits the start step with every studio name.
NextStart ==
    \E c \in {1}, studio_name \in StudioNames :
        SignupPost(c, studio_name, Form1.domain, Form1.email, Form1.owner_name,
                   Pw8, Pw8)

SpecStart == Init /\ [][NextStart]_vars

\* Console traffic: client 1 signs two tenants up, client 2 is the admin.
NextConsole ==
    \/ \E c \in {1} : SignupRequests(c, {Form2, Form3}, {Pw8}, {NoValue}, {NoUpload})
    \/ \E c \in {2} : LoginRequests(c) \/ AdminRequests(c)

SpecConsole == Init /\ [][NextConsole]_vars

\* Upload traffic: every client runs the wizard with a start form that
\* collides with itself when it is used again, and with every upload.
NextUploads ==
    \E c \in Clients : SignupRequests(c, {Form2}, {Pw8}, {NoValue}, UploadInputs)

SpecUploads == Init /\ [][NextUploads]_vars

(***************************************************************************)
(* Properties.                                                             *)
(***************************************************************************)
\* this step sends client c the response to its request to `endpoint`
Sent(c, endpoint) ==
    resp'.status # "none" /\ resp'.client = c /\ resp'.request = endpoint

\* the last step sent client c the response to its request to `endpoint`
Got(c, endpoint) ==
    resp.status # "none" /\ resp.client = c /\ resp.request = endpoint

\* a committed row carries a unique value of the wizard record `sn`
Collides(sn) ==
    \/ \E s \in studios : s.email = sn["signup_email"]
                            \/ s.subdomain = sn["signup_subdomain"]
    \/ \E d \in domains : d.domain = sn["signup_domain"]
    \/ \E u \in users : u.email = sn["signup_email"] \/ u.username = sn["signup_email"]

\* C1: a branding step that completes adds exactly one Tenant, one primary
\* unverified TenantDomain and one owner User (role studio_owner, username =
\* owner email), all with the same tenant id and built from the wizard
\* record, and leaves none of the seven wizard keys in the session; and a
\* branding step fails only when a value of the wizard record collides with
\* a committed row.
C1_SignupCreatesTenant ==
    [][\A c \in Clients :
        /\ (Sent(c, "signup_branding") /\ resp'.page = "signup_complete") =>
            LET sn == session[c]
                id == resp'.studio_id
            IN  /\ studios \subseteq studios'
                /\ domains \subseteq domains'
                /\ users \subseteq users'
                /\ Cardinality(studios' \ studios) = 1
                /\ Cardinality(domains' \ domains) = 1
                /\ Cardinality(users' \ users) = 1
                /\ \A t \in studios' \ studios :
                        /\ t.id = id
                        /\ t.name = sn["signup_studio_name"]
                        /\ t.email = sn["signup_email"]
                        /\ t.subdomain = sn["signup_subdomain"]
                /\ \A d \in domains' \ domains :
                        /\ d.studio_id = id
                        /\ d.domain = sn["signup_domain"]
                        /\ d.is_primary
                        /\ ~d.is_verified
                /\ \A u \in users' \ users :
                        /\ u.studio_id = id
                        /\ u.role = "studio_owner"
                        /\ u.email = sn["signup_email"]
                        /\ u.username = sn["signup_email"]
                /\ WizardKeys \cap DOMAIN session'[c] = {}
        /\ (Sent(c, "signup_branding") /\ resp'.page = "signup/branding") =>
            Collides(session[c])
      ]_vars

\* C1 witness: a signup has completed and its tenant is stored
C1_Witness ==
    /\ resp.status = "redirect"
    /\ resp.page = "signup_complete"
    /\ \E t \in studios : t.id = resp.studio_id
    /\ WizardKeys \cap DOMAIN session[resp.client] = {}

\* C2: a start submission whose password and confirmation differ, or whose
\* password is shorter than 8 characters, creates no row, leaves the session
\* as it was and shows the start page again.
C2_InvalidStartChangesNothing ==
    [][\A c \in Clients :
        (/\ Sent(c, "signup")
         /\ \/ resp'.password # resp'.confirm_password
            \/ Len(resp'.password) < 8) =>
            /\ resp'.status = "render"
            /\ resp'.page = "signup/start"
            /\ session' = session
            /\ UNCHANGED <<studios, domains, users, pending, wizard>>
      ]_vars

\* C2 witness: a too-short password was refused in a session that holds a
\* wizard record
C2_Witness ==
    /\ \E c \in Clients :
        /\ Got(c, "signup")
        /\ Has(session[c], "signup_password")
    /\ resp.page = "signup/start"
    /\ resp.password = resp.confirm_password
    /\ Len(resp.password) < 8

\* C3: when the tenant creation of a branding step fails, on the first
\* insert or on a later one, no row of that attempt is stored or left to be
\* committed, the stored rows are as before, every wizard key is still in
\* the session and the branding page is shown, so the step can be retried.
C3_FailedCreationIsAllOrNothing ==
    [][\A c \in Clients :
        (Sent(c, "signup_branding") /\ resp'.page = "signup/branding") =>
            /\ UNCHANGED <<studios, domains, users>>
            /\ pending'[c] = NoRows
            /\ \A t \in studios' : t.id # resp'.studio_id
            /\ \A d \in domains' : d.studio_id # resp'.studio_id
            /\ \A u \in users' : u.studio_id # resp'.studio_id
            /\ session'[c] = session[c]
            /\ WizardKeys \subseteq DOMAIN session'[c]
            /\ resp'.status = "render"
            /\ req'[c].pc = "idle"
      ]_vars

\* C3 witness: a creation failed on the TenantDomain insert, after its
\* Tenant insert had been flushed
C3_Witness ==
    /\ resp.status = "render"
    /\ resp.page = "signup/branding"
    /\ resp.cause = <<"studio_domains", "domain">>

\* C4: no two Tenants share an email or a subdomain, also when two
\* completions with the same subdomain or email overlap; the one that ends
\* with the error has no row stored or left to be committed.
C4_UniqueTenants ==
    /\ \A t1, t2 \in studios :
            t1 # t2 => /\ t1.id # t2.id
                       /\ t1.email # t2.email
                       /\ t1.subdomain # t2.subdomain
    /\ (resp.status = "render" /\ resp.page = "signup/branding") =>
            /\ \A t \in studios \cup pending[resp.client].studios :
                    t.id # resp.studio_id
            /\ \A d \in domains \cup pending[resp.client].domains :
                    d.studio_id # resp.studio_id
            /\ \A u \in users \cup pending[resp.client].users :
                    u.studio_id # resp.studio_id

\* C4 witness: the loser of a race on the subdomain or the email: its
\* request had begun before the winner's (its id is smaller) and failed on
\* the row the winner committed
C4_Witness ==
    /\ resp.status = "render"
    /\ resp.page = "signup/branding"
    /\ resp.cause[1] = "studios"
    /\ \E t \in studios :
            /\ t.id > resp.studio_id
            /\ \/ t.subdomain = session[resp.client]["signup_subdomain"]
               \/ t.email = session[resp.client]["signup_email"]

\* C5: the branding step of a signup whose studio name normalizes to the
\* subdomain of a stored tenant fails with the subdomain-conflict message
\* and leaves every stored Tenant, TenantDomain and User as it was.
C5_SubdomainConflict ==
    [][\A c \in Clients :
        (/\ Sent(c, "signup_branding")
         /\ resp'.page # "signup_plan"
         /\ \E t \in studios :
                t.subdomain = Subdomain(session[c]["signup_studio_name"])) =>
            /\ resp'.page = "signup/branding"
            /\ resp'.flash = "subdomain is already taken"
            /\ UNCHANGED <<studios, domains, users>>
      ]_vars

\* C5 witness: a second signup, under another studio name with the same
\* subdomain, got the subdomain-conflict message
C5_Witness ==
    /\ resp.status = "render"
    /\ resp.page = "signup/branding"
    /\ resp.flash = "subdomain is already taken"
    /\ \E t \in studios :
            /\ t.name # session[resp.client]["signup_studio_name"]
            /\ t.subdomain = Subdomain(session[resp.client]["signup_studio_name"])

\* C6: every Tenant with onboarding_completed = true has onboarding_step =
\* "completed".
C6_CompletedImpliesStep ==
    \A t \in studios : t.onboarding_completed => t.onboarding_step = "completed"

\* C6 witness: a tenant was provisioned, and a deprovision request for it is
\* in flight
C6_Witness ==
    \E t \in studios, c \in Clients :
        /\ t.onboarding_completed
        /\ req[c].pc = "deprovision"
        /\ req[c].studio_id = t.id

\* the six keys the start step stores
StartKeys == WizardKeys \ {"signup_plan"}

\* C7: the plan step stores a plan only in a session that holds the wizard
\* record, and otherwise redirects to the start step and changes nothing;
\* the branding step begins a tenant creation only in a session that holds a
\* plan, and otherwise redirects to the plan step and changes nothing; and a
\* tenant is stored only by the branding step of a session that has passed
\* the start step and the plan step since its last completion.
C7_WizardOrder ==
    [][\A c \in Clients :
        /\ Sent(c, "signup_plan") =>
            IF StartKeys \subseteq DOMAIN session[c]
            THEN resp'.page = "signup_branding"
            ELSE /\ resp'.page = "signup"
                 /\ session' = session
                 /\ UNCHANGED <<studios, domains, users, pending, req>>
        /\ (Sent(c, "signup_branding") /\ ~Has(session[c], "signup_plan")) =>
            /\ resp'.page = "signup_plan"
            /\ session' = session
            /\ UNCHANGED <<studios, domains, users, pending, req>>
        /\ (req[c].pc = "idle" /\ req'[c].pc = "signup_branding") =>
            WizardKeys \subseteq DOMAIN session[c]
        /\ (Sent(c, "signup_branding") /\ resp'.page = "signup_complete") =>
            wizard[c] = {"start", "plan"}
        /\ studios' # studios =>
            \E d \in Clients : Sent(d, "signup_branding")
                                 /\ resp'.page = "signup_complete"
      ]_vars

\* C7 witness: after a completed signup, a plan step without a wizard
\* record was redirected to the start step
C7_Witness ==
    /\ studios # {}
    /\ resp.status = "redirect"
    /\ resp.request = "signup_plan"
    /\ resp.page = "signup"

\* toggle_feature called alone, with no other request between its query and
\* its commit: the tables it may leave
ToggleFeatureCall(rows, studio_id, feature_key, enabled) ==
    {FeatureWritten(rows, found, LoadedFeature(rows, found),
                    studio_id, feature_key, enabled) :
        found \in First(FeatureMatches(rows, studio_id, feature_key))}

\* C8: in every reachable state, toggleFeature called twice in sequence with
\* the same (tenantId, key, enabled), for a stored tenant, leaves exactly
\* one row for that pair, with that enabled value, and the second call
\* changes nothing.
C8_ToggleTwice ==
    \A t \in studios, feature_key \in FeatureKeys, enabled \in BOOLEAN :
        \A once \in ToggleFeatureCall(features, t.id, feature_key, enabled) :
        \A twice \in ToggleFeatureCall(once, t.id, feature_key, enabled) :
            /\ twice = once
            /\ Cardinality(FeatureMatches(twice, t.id, feature_key)) = 1
            /\ \A i \in FeatureMatches(twice, t.id, feature_key) :
                    twice[i].enabled = enabled

\* C9: in every reachable state there is at most one TenantFeature row for
\* each (tenant_id, feature_key) pair of a stored tenant.
C9_OneRowPerPair ==
    \A t \in studios, feature_key \in FeatureKeys :
        Cardinality(FeatureMatches(features, t.id, feature_key)) <= 1

\* the session of c holds the admin flag
Flagged(sn) == AdminKey \in DOMAIN sn /\ sn[AdminKey] = TRUE

AdminEndpoints == {"toggle_studio", "toggle_studio_feature", "provision", "deprovision"}

\* C10: a request to an admin mutation of a session without the admin flag
\* is redirected to the login and changes nothing; the stored rows change
\* only in a step of a flagged session's admin request or of a signup
\* completion; a session gains the flag only by a login with the configured
\* username and password, and after a logout it is without it.
C10_AdminFlagGates ==
    [][/\ \A c \in Clients :
            /\ (\E e \in AdminEndpoints : Sent(c, e)) /\ ~Flagged(session[c]) =>
                /\ resp'.status = "redirect"
                /\ resp'.page = "admin_login"
                /\ UNCHANGED <<session, req, studios, domains, users, features,
                               pending>>
            /\ (req'[c] # req[c] /\ req[c].pc \notin {"idle", "signup_branding",
                                                       "create_studio", "branding"}) =>
                Flagged(session[c])
            /\ (req'[c] # req[c] /\ req'[c].pc \notin {"idle", "signup_branding",
                                                        "create_studio", "branding"}) =>
                Flagged(session[c])
            /\ (~Flagged(session[c]) /\ Flagged(session'[c])) =>
                /\ Sent(c, "admin_login")
                /\ resp'.username = "admin"
                /\ resp'.password = "admin123"
            /\ Sent(c, "admin_logout") => ~Flagged(session'[c])
       /\ <<studios, domains, users, features>>' # <<studios, domains, users, features>> =>
            \E c \in Clients : req'[c] # req[c] /\ req[c].pc # "idle"
      ]_vars

\* C10 witness: after a logout, the session's request to provision a stored
\* tenant was redirected to the login
C10_Witness ==
    /\ resp.status = "redirect"
    /\ resp.request = "provision"
    /\ resp.page = "admin_login"
    /\ studios # {}
    /\ \E t \in studios : t.onboarding_completed

\* the admin actions that look a tenant up and no-op when there is none
LookupEndpoints == {"toggle_studio", "provision", "deprovision"}

\* C11: an active toggle, a provision or a deprovision for a tenant id that
\* matches no Tenant is answered by its first step, the query, which finds
\* nothing (provision_studio returns the absent result); the answer is the
\* usual redirect, not an error, and no row and no session changes.
C11_UnknownTenantNoOp ==
    [][\A c \in Clients, e \in LookupEndpoints :
        (/\ Sent(c, e)
         /\ Flagged(session[c])
         /\ \A s \in studios : s.id # resp'.studio_id) =>
            /\ req[c].pc = "idle"
            /\ resp'.status = "redirect"
            /\ resp'.page = (IF e = "toggle_studio" THEN "admin_studios"
                                                    ELSE "admin_provisioning")
            /\ UNCHANGED <<studios, domains, users, features, pending, session, req>>
      ]_vars

\* C11 witness: a provision for an id that names no tenant was answered
\* while a tenant is stored
C11_Witness ==
    /\ resp.status = "redirect"
    /\ resp.request = "provision"
    /\ resp.page = "admin_provisioning"
    /\ studios # {}
    /\ \A s \in studios : s.id # resp.studio_id

\* C12: in every committed state every Tenant has exactly one TenantDomain,
\* which is primary, and exactly one User, who has the role studio_owner and
\* the tenant's email, and every TenantDomain and every User references a
\* stored Tenant.
C12_RowsAppearTogether ==
    /\ \A t \in studios :
        /\ Cardinality({d \in domains : d.studio_id = t.id}) = 1
        /\ \A d \in domains : d.studio_id = t.id => d.is_primary
        /\ Cardinality({u \in users : u.studio_id = t.id}) = 1
        /\ \A u \in users :
                u.studio_id = t.id => u.role = "studio_owner" /\ u.email = t.email
    /\ \A d \in domains : \E t \in studios : t.id = d.studio_id
    /\ \A u \in users : \E t \in studios : t.id = u.studio_id

\* C12 witness: a tenant is stored while another creation has flushed its
\* Tenant and not yet its TenantDomain and User
C12_Witness ==
    /\ studios # {}
    /\ \E c \in Clients :
        /\ pending[c].studios # {}
        /\ pending[c].domains = {}
        /\ pending[c].users = {}

\* C13: the domain check answers available = true exactly when no committed
\* TenantDomain row has the domain asked for, answers available = false
\* with the error "Domain required" when the parameter is absent or empty,
\* and changes no stored row and no session.
C13_CheckDomain ==
    [][\A c \in Clients :
        Sent(c, "check_domain") =>
            /\ IF resp'.args \in {NoValue, ""}
               THEN resp'.json = [available |-> FALSE, error |-> "Domain required"]
               ELSE /\ resp'.json.domain = resp'.args
                    /\ resp'.json.available =
                            ~(\E d \in domains : d.domain = resp'.args)
            /\ UNCHANGED <<studios, domains, users, features, pending, session>>
      ]_vars

\* C13 witness: the domain of a stored tenant was reported taken, while
\* another creation with an uncommitted domain is in flight
C13_Witness ==
    /\ resp.status = "json"
    /\ resp.json.available = FALSE
    /\ \E d \in domains : d.domain = resp.args
    /\ \E c \in Clients : pending[c].domains # {}

\* what the derivation makes of one character that is not an apostrophe
DerivedChar(ch) ==
    CASE ch = " " -> "-"
      [] ch = "J" -> "j"
      [] ch = "P" -> "p"
      [] ch = "C" -> "c"
      [] OTHER -> ch

\* the positions of `name` up to i that hold no apostrophe
Kept(name, i) == {j \in 1..i : name[j] # "'"}

\* C14: the subdomain a successful start step stores is the studio name
\* without its apostrophes, with every capital lower-cased, every blank
\* replaced by a hyphen and every other character as it was, in the same
\* order; "Jane's Photo Co" gives "janes-photo-co".
C14_SubdomainDerivation ==
    [][\A c \in Clients :
        (Sent(c, "signup") /\ resp'.status = "redirect") =>
            LET name == session'[c]["signup_studio_name"]
                subdomain == session'[c]["signup_subdomain"]
            IN  /\ Len(subdomain) = Cardinality(Kept(name, Len(name)))
                /\ \A i \in Kept(name, Len(name)) :
                        subdomain[Cardinality(Kept(name, i))] = DerivedChar(name[i])
                /\ name = JanesPhotoCo =>
                        subdomain = <<"j", "a", "n", "e", "s", "-", "p", "h", "o",
                                      "t", "o", "-", "c", "o">>
      ]_vars

\* C14 witness: the start step has stored the subdomain of "Jane's Photo Co"
C14_Witness ==
    \E c \in Clients :
        /\ Got(c, "signup")
        /\ resp.status = "redirect"
        /\ session[c]["signup_studio_name"] = JanesPhotoCo
        /\ session[c]["signup_subdomain"] =
                <<"j", "a", "n", "e", "s", "-", "p", "h", "o", "t", "o", "-", "c", "o">>

\* provision called alone, with no other request between its query and its
\* last commit: the tables it may leave, and the domain it took for the first
ProvisionCall(tables, studio_id) ==
    LET found == {s \in tables.studios : s.id = studio_id}
        after == StudiosUpdated(tables.studios, studio_id,
                    Changed(OnboardingOf(CHOOSE s \in found : TRUE), Provisioned))
        owned == {d \in tables.domains : d.studio_id = studio_id}
    IN  IF found = {} THEN {[studios |-> tables.studios, domains |-> tables.domains,
                             first |-> {}]}
        ELSE IF owned = {} THEN {[studios |-> after, domains |-> tables.domains,
                                  first |-> {}]}
        ELSE {[studios |-> after,
               domains |-> DomainsUpdated(tables.domains, d.domain,
                            Changed([is_verified |-> d.is_verified],
                                    [is_verified |-> TRUE])),
               first |-> {d.domain}] : d \in owned}

\* deprovision called alone
DeprovisionCall(tables, studio_id) ==
    LET found == {s \in tables.studios : s.id = studio_id}
        after == StudiosUpdated(tables.studios, studio_id,
                    Changed(OnboardingOf(CHOOSE s \in found : TRUE), Deprovisioned))
        owned == {d \in tables.domains : d.studio_id = studio_id}
    IN  IF found = {} THEN {[studios |-> tables.studios, domains |-> tables.domains,
                             first |-> {}]}
        ELSE IF owned = {} THEN {[studios |-> after, domains |-> tables.domains,
                                  first |-> {}]}
        ELSE {[studios |-> after,
               domains |-> DomainsUpdated(tables.domains, d.domain,
                            Changed([is_verified |-> d.is_verified],
                                    [is_verified |-> FALSE])),
               first |-> {d.domain}] : d \in owned}

\* in `tables` the tenant has these onboarding values and its first domain
\* this verification
OnboardingIs(tables, studio_id, step, completed, verified) ==
    /\ \A s \in tables.studios :
            s.id = studio_id => /\ s.onboarding_step = step
                                /\ s.onboarding_completed = completed
    /\ tables.first # {}
    /\ \A d \in tables.domains : d.domain \in tables.first => d.is_verified = verified

\* C15: in every reachable state and for every stored tenant, provision
\* called in sequence leaves onboarding_step = "completed",
\* onboarding_completed = true and the first domain verified, and deprovision
\* called after it leaves onboarding_step = "pending", onboarding_completed =
\* false and the first domain unverified, which are the values of a new
\* tenant.
C15_ProvisionDeprovision ==
    \A t \in studios :
        LET created == NewStudio(t.id, t.name, t.email, t.subdomain, t.subscription_tier)
        IN
        \A provisioned \in ProvisionCall([studios |-> studios, domains |-> domains],
                                         t.id) :
            /\ OnboardingIs(provisioned, t.id, "completed", TRUE, TRUE)
            /\ \A deprovisioned \in DeprovisionCall(provisioned, t.id) :
                /\ OnboardingIs(deprovisioned, t.id, "pending", FALSE, FALSE)
                /\ OnboardingIs(deprovisioned, t.id, created.onboarding_step,
                                created.onboarding_completed,
                                NewStudioDomain(t.id, "").is_verified)

\* C15 witness: a provision of a stored tenant has completed and left it
\* provisioned with a verified domain
C15_Witness ==
    /\ resp.status = "redirect"
    /\ resp.request = "provision"
    /\ resp.page = "admin_provisioning"
    /\ \E s \in studios :
        /\ s.id = resp.studio_id
        /\ s.onboarding_completed
        /\ \E d \in domains : d.studio_id = s.id /\ d.is_verified

\* C20: in every committed state the domain of a tenant is verified exactly
\* when the tenant has onboarding_completed = true.
C20_ProvisioningAtomic ==
    \A s \in studios : \A d \in domains :
        d.studio_id = s.id => (d.is_verified <=> s.onboarding_completed)

\* C16: every TenantFeature row references a stored Tenant (a feature
\* toggle for an id that matches no Tenant creates no row).
C16_FeaturesReferenceTenants ==
    \A i \in 1..Len(features) : \E s \in studios : s.id = features[i].studio_id

\* row `after` is row `before` but for the columns `cols`
SameBut(before, after, cols) ==
    /\ DOMAIN after = DOMAIN before
    /\ \A col \in DOMAIN before \ cols : after[col] = before[col]

\* this step leaves every Tenant but `studio_id` as it was, and changes of
\* that one at most the columns `cols`
StudiosSameBut(studio_id, cols) ==
    /\ {s.id : s \in studios'} = {s.id : s \in studios}
    /\ \A s \in studios : s.id # studio_id => s \in studios'
    /\ \A s \in studios, t \in studios' :
            (s.id = studio_id /\ t.id = studio_id) => SameBut(s, t, cols)

\* this step leaves every TenantDomain but those of `studio_id` as it was,
\* and changes of those at most is_verified
DomainsSameBut(studio_id) ==
    /\ {d.domain : d \in domains'} = {d.domain : d \in domains}
    /\ \A d \in domains : d.studio_id # studio_id => d \in domains'
    /\ \A d \in domains, e \in domains' :
            (d.domain = e.domain /\ d.studio_id = studio_id) =>
                SameBut(d, e, {"is_verified"})

C18_MessageNamesConstraint ==
    [][\A c \in Clients :
        (Sent(c, "signup_branding") /\ resp'.page = "signup/branding") =>
            LET subdomain_collides ==
                    \E s \in studios : s.subdomain = session[c]["signup_subdomain"]
                email_collides ==
                    \E s \in studios : s.email = session[c]["signup_email"]
            IN  /\ (email_collides /\ ~subdomain_collides) =>
                        resp'.flash = "email is already registered"
                /\ resp'.flash = "subdomain is already taken" => subdomain_collides
      ]_vars

\* C19: every Tenant has onboarding_step "pending" or "completed", and
\* onboarding_completed = false exactly when the step is "pending"; so
\* get_pending_studios returns exactly the tenants whose onboarding is not
\* completed.
C19_PendingListComplete ==
    /\ \A s \in studios :
        /\ s.onboarding_step \in {"pending", "completed"}
        /\ s.onboarding_completed = FALSE <=> s.onboarding_step = "pending"
    /\ get_pending_studios(studios) = {s \in studios : ~s.onboarding_completed}

\* C19 witness: a deprovision has completed and left its tenant pending
\* while a provision of the same tenant is between its two commits
C19_Witness ==
    /\ resp.status = "redirect"
    /\ resp.request = "deprovision"
    /\ resp.page = "admin_provisioning"
    /\ \E s \in studios, c \in Clients :
        /\ s.id = resp.studio_id
        /\ s \in get_pending_studios(studios)
        /\ req[c].pc = "provision"
        /\ req[c].studio_id = s.id

BrandingSteps == {"signup_branding", "create_studio", "branding"}

\* a branding submission that generated studio_id has not been answered yet
Submitting(studio_id) ==
    \E c \in Clients : req[c].pc \in BrandingSteps /\ req[c].studio_id = studio_id

\* C22: every file in the upload store carries the id of a committed tenant
\* or of a branding submission that is still being handled: once a
\* submission has failed, none of the files it wrote remains.
C22_FilesNamedByTenants ==
    \A f \in files :
        \/ \E s \in studios : s.id = f.studio_id
        \/ Submitting(f.studio_id)

====
